---- MODULE Spec2Model ----
(***************************************************************************)
(* secret-manager: a single pass that reads the APPLICATION id list,       *)
(* fetches each application and its owners from the directory, evaluates   *)
(* password-credential expiry against now + 30 days and mails one alert    *)
(* per qualifying application to a fixed recipient.                        *)
(*                                                                         *)
(* Strings that the program takes apart (the APPLICATION value, ids) are   *)
(* sequences of one-character strings.  Option<T> is a sequence of length  *)
(* 0 (None) or 1 (Some).  Times are whole days.                             *)
(***************************************************************************)
EXTENDS Integers, Sequences, FiniteSets, TLC

VARIABLES
    pc,           \* position of main / of the function under analysis
    outcome,      \* "running", "Ok" or the error that propagated out
    APPLICATION,  \* the APPLICATION environment variable (Unset or a string)
    app_ids,      \* main: Vec<String> of application ids
    fetched,      \* directory traffic so far, one entry per id / raw record
    acc,          \* the fetch function's local `apps` vector
    apps,         \* main: the Vec<App> returned by the fetch
    now,          \* the clock value read by check_expiring_credentials
    evals,        \* number of completed calls of check_expiring_credentials
    alerts,       \* the Vec<(String, Vec<String>, Vec<String>)> returned
    next_alert,   \* main: position of the dispatch loop in alerts
    sent,         \* messages accepted by send_mail, in order
    pages,        \* bulk fetch: the pages returned by the list request
    page_i,       \* bulk fetch: current page
    rec_i         \* bulk fetch: current raw record of the page

vars == <<pc, outcome, APPLICATION, app_ids, fetched, acc, apps, now, evals,
          alerts, next_alert, sent, pages, page_i, rec_i>>

----
\* Bounds of the model.

\* applications handed to the evaluator
MaxApps == 2
\* password credentials over all applications handed to the evaluator
MaxCreds == 2
\* owners over all applications handed to the evaluator
MaxOwners == 2
\* length of the APPLICATION string when only its parsing is analysed
MaxEnvLen == 4
\* ids configured in APPLICATION for a whole run
MaxRunIds == 2
\* pages returned by the bulk list request
MaxPages == 2
\* raw application records over all pages
MaxRecs == 3

----
\* Values.

None == <<>>
Some(x) == <<x>>

\* chrono::Duration::days(30)
Window == 30

\* clock readings
NowSet == {10, 20}

NoName == <<"N", "o", " ", "N", "a", "m", "e">>

ALERTING_EMAIL == "alerts@corp.com"
RECIEVER_EMAIL == "ops@corp.com"

\* models.rs PasswordCredential
CredSet ==
    { [customKeyIdentifier |-> None, endDateTime |-> 5,
       hint |-> Some("abc"), keyId |-> Some("k5")],
      [customKeyIdentifier |-> None, endDateTime |-> 15,
       hint |-> Some("def"), keyId |-> Some("k15")],
      [customKeyIdentifier |-> Some("ck"), endDateTime |-> 40,
       hint |-> None, keyId |-> None] }

\* models.rs Owner
OwnerSet ==
    { [id |-> "o1", displayName |-> Some("Ann"),
       userPrincipalName |-> Some("ann@upn"), mail |-> Some("a@x.com")],
      [id |-> "o2", displayName |-> None,
       userPrincipalName |-> Some("bob@upn"), mail |-> None],
      [id |-> "o3", displayName |-> Some("Cy"),
       userPrincipalName |-> None, mail |-> None] }

RECURSIVE SeqsUpTo(_, _)
SeqsUpTo(S, n) ==
    IF n = 0 THEN {<<>>}
    ELSE LET shorter == SeqsUpTo(S, n - 1)
         IN  shorter \cup {Append(s, x) : s \in shorter, x \in S}

\* the directory's display name of the application with this id: some
\* applications have none
DirectoryName(id) == IF Len(id) % 2 = 0 THEN None ELSE Some(id)

\* models.rs App::insert_owners
insert_owners(app, owners) == [app EXCEPT !.owners = owners]

----
\* main, lines 252-253: app_ids.split(',').map(|s| s.trim().to_string()).collect()

IsWhitespace(c) == c = " "

\* str::split(','): the pieces between commas; a string without a comma,
\* the empty string included, is one piece
RECURSIVE SplitFrom(_, _)
SplitFrom(s, piece) ==
    IF s = <<>> THEN <<piece>>
    ELSE IF Head(s) = "," THEN <<piece>> \o SplitFrom(Tail(s), <<>>)
    ELSE SplitFrom(Tail(s), Append(piece, Head(s)))

Split(s) == SplitFrom(s, <<>>)

RECURSIVE TrimStart(_)
TrimStart(s) ==
    IF s # <<>> /\ IsWhitespace(Head(s)) THEN TrimStart(Tail(s)) ELSE s

RECURSIVE TrimEnd(_)
TrimEnd(s) ==
    IF s # <<>> /\ IsWhitespace(s[Len(s)])
    THEN TrimEnd(SubSeq(s, 1, Len(s) - 1)) ELSE s

\* str::trim
Trim(s) == TrimEnd(TrimStart(s))

ParseAppIds(s) == LET pieces == Split(s)
                  IN  [i \in 1..Len(pieces) |-> Trim(pieces[i])]

----
\* check_expiring_credentials, lines 108-193

IsExpiringInclusive(credential, threshold) == credential.endDateTime <= threshold

\* line 129: credential.endDateTime < threshold
IsExpiring(credential, threshold) == credential.endDateTime < threshold

\* lines 139-142: format!("Key ID: {:?}, Hint: {:?}, Expiry: {}", ...)
CredentialInfo(credential) ==
    <<"Key ID: ", credential.keyId, ", Hint: ", credential.hint,
      ", Expiry: ", credential.endDateTime>>

\* lines 147-168: one pass over the owners, mail first, then userPrincipalName
RECURSIVE CollectOwnerEmails(_)
CollectOwnerEmails(owners) ==
    IF owners = <<>> THEN <<>>
    ELSE LET owner == Head(owners)
             rest  == CollectOwnerEmails(Tail(owners))
         IN  IF owner.mail # None THEN <<owner.mail[1]>> \o rest
             ELSE IF owner.userPrincipalName # None
                  THEN <<owner.userPrincipalName[1]>> \o rest
                  ELSE rest

\* lines 128-173: the credential loop; for every expiring credential it
\* pushes the description and runs the owner pass, so the pair returned is
\* <<owner_emails, expiring_credential_info>> after the loop
RECURSIVE CredentialLoop(_, _, _)
CredentialLoop(credentials, owners, threshold) ==
    IF credentials = <<>> THEN <<<<>>, <<>>>>
    ELSE LET credential == Head(credentials)
             rest == CredentialLoop(Tail(credentials), owners, threshold)
         IN  IF IsExpiring(credential, threshold)
             THEN <<CollectOwnerEmails(owners) \o rest[1],
                    <<CredentialInfo(credential)>> \o rest[2]>>
             ELSE rest

ShouldPushEither(owner_emails, expiring_credential_info) ==
    expiring_credential_info # <<>> \/ owner_emails # <<>>

\* line 176
ShouldPush(owner_emails, expiring_credential_info) ==
    expiring_credential_info # <<>> /\ owner_emails # <<>>

\* lines 178-180: displayName.clone().unwrap_or_else(|| "No Name")
AlertName(app) == IF app.displayName = None THEN NoName ELSE app.displayName[1]

\* lines 118-189: one iteration of the application loop; the alerts it pushes
AppAlerts(app, threshold) ==
    IF app.passwordCredentials = <<>> THEN <<>>
    ELSE LET lists == CredentialLoop(app.passwordCredentials, app.owners, threshold)
         IN  IF ShouldPush(lists[1], lists[2])
             THEN << <<AlertName(app), lists[1], lists[2]>> >>
             ELSE <<>>

RECURSIVE AlertsFromNewestFirst(_, _)
AlertsFromNewestFirst(applications, threshold) ==
    IF applications = <<>> THEN <<>>
    ELSE AlertsFromNewestFirst(Tail(applications), threshold)
         \o AppAlerts(Head(applications), threshold)

\* lines 112-192 with the clock value read at line 114 as a parameter
RECURSIVE AlertsFrom(_, _)
AlertsFrom(applications, threshold) ==
    IF applications = <<>> THEN <<>>
    ELSE AppAlerts(Head(applications), threshold)
         \o AlertsFrom(Tail(applications), threshold)

check_expiring_credentials(applications, clock) ==
    AlertsFrom(applications, clock + Window)

----
MailForOwners(app_name, owner_emails, expiring_credentials) ==
    [sender |-> ALERTING_EMAIL,
     subject |-> "Alert: Expiring Credentials for Application",
     contentType |-> "Text",
     content |-> <<"The application '", app_name,
                   "' has credentials expiring soon. Please review and take necessary action.\n\nExpiring Credentials:\n",
                   expiring_credentials>>,
     toRecipients |-> owner_emails,
     saveToSentItems |-> "true"]

\* send_email_alert, lines 195-238: the mail handed to send_mail
MailFor(app_name, owner_emails, expiring_credentials) ==
    [sender |-> ALERTING_EMAIL,
     subject |-> "Alert: Expiring Credentials for Application",
     contentType |-> "Text",
     content |-> <<"The application '", app_name,
                   "' has credentials expiring soon. Please review and take necessary action.\n\nExpiring Credentials:\n",
                   expiring_credentials>>,
     toRecipients |-> <<RECIEVER_EMAIL>>,
     saveToSentItems |-> "true"]

----
\* Response bodies and their deserialization (serde, models.rs).

\* a JSON passwordCredentials entry; every field may be missing
RawCredential(c) ==
    [customKeyIdentifier |-> c.customKeyIdentifier,
     endDateTime |-> Some(c.endDateTime), hint |-> c.hint, keyId |-> c.keyId]

\* an entry the directory sent without endDateTime
UndatedCredential ==
    [customKeyIdentifier |-> None, endDateTime |-> None, hint |-> None,
     keyId |-> Some("k0")]

\* a JSON application object with the selected fields
RawApp(id, rawCredentials) ==
    [id |-> Some(id), appId |-> Some(id), displayName |-> DirectoryName(id),
     passwordCredentials |-> Some(rawCredentials)]

\* a JSON object that carries none of the fields (an error payload)
ErrorBody ==
    [id |-> None, appId |-> None, displayName |-> None,
     passwordCredentials |-> None]

RawCredentials(credentials) ==
    [i \in 1..Len(credentials) |-> RawCredential(credentials[i])]

\* PasswordCredential: endDateTime is not an Option, the other fields are
ParseCredential(raw) ==
    IF raw.endDateTime = None THEN None
    ELSE Some([customKeyIdentifier |-> raw.customKeyIdentifier,
               endDateTime |-> raw.endDateTime[1],
               hint |-> raw.hint, keyId |-> raw.keyId])

\* App: id and passwordCredentials are required, owners is #[serde(skip)]
ParseApp(raw) ==
    IF \/ raw.id = None
       \/ raw.passwordCredentials = None
    THEN None
    ELSE LET rawCredentials == raw.passwordCredentials[1]
         IN  IF \E i \in 1..Len(rawCredentials) :
                    ParseCredential(rawCredentials[i]) = None
             THEN None
             ELSE Some([id |-> raw.id[1], appId |-> raw.appId,
                        displayName |-> raw.displayName,
                        passwordCredentials |->
                            [i \in 1..Len(rawCredentials) |->
                                ParseCredential(rawCredentials[i])[1]],
                        owners |-> <<>>])

\* a JSON owners listing: {"value": [...]} or a body without that array
OwnersBody(owners) == [value |-> Some(owners)]
NoOwnersBody == [value |-> None]

\* Owners: value is required
ParseOwners(body) == IF body.value = None THEN None ELSE Some([value |-> body.value[1]])

----
\* Inputs.

\* the id of the i-th application handed to the evaluator
IdAt(i) == [k \in 1..i |-> "a"]

\* the n-tuples of sequences over S holding at most t elements in all
RECURSIVE Shares(_, _, _)
Shares(S, n, t) ==
    IF n = 0 THEN {<<>>}
    ELSE UNION { { <<s>> \o rest : rest \in Shares(S, n - 1, t - Len(s)) } :
                 s \in SeqsUpTo(S, t) }

\* the application list made of the i-th credential and owner sequences
Hydrated(credentials, owners) ==
    [i \in 1..Len(credentials) |->
        insert_owners(ParseApp(RawApp(IdAt(i), RawCredentials(credentials[i])))[1],
                      owners[i])]

EnvStrings == SeqsUpTo({"a", "b", ",", " "}, MaxEnvLen)

\* the ids joined by commas
RECURSIVE Join(_)
Join(ids) ==
    IF ids = <<>> THEN <<>>
    ELSE IF Len(ids) = 1 THEN ids[1]
    ELSE ids[1] \o <<",">> \o Join(Tail(ids))

\* APPLICATION values of a run: up to MaxRunIds ids, written with or without
\* padding; no id at all gives the empty string
RunStrings == {Join(ids) : ids \in SeqsUpTo({<<"a">>, <<" ", "b">>}, MaxRunIds)}

\* what the directory may answer to get_application(id) in a run: an
\* application with at most one credential, an undated credential, or a
\* body without the fields
RunBodies(id) ==
    {RawApp(id, <<>>), RawApp(id, <<UndatedCredential>>), ErrorBody}
    \cup {RawApp(id, <<RawCredential(c)>>) : c \in CredSet}

\* what it may answer to list_owners: at most one owner, or no value array
RunOwnerBodies ==
    {OwnersBody(<<>>), NoOwnersBody} \cup {OwnersBody(<<o>>) : o \in OwnerSet}

----
\* The run: main, lines 246-281.

Exit(result) == pc' = "exit" /\ outcome' = result

\* lines 252-253
ParseIds ==
    /\ pc = "main"
    /\ IF APPLICATION = None
       THEN Exit("Err: APPLICATION") /\ UNCHANGED app_ids
       ELSE /\ app_ids' = ParseAppIds(APPLICATION[1])
            /\ pc' = "client"
            /\ UNCHANGED outcome
    /\ UNCHANGED <<APPLICATION, fetched, acc, apps, now, evals, alerts,
                   next_alert, sent, pages, page_i, rec_i>>

\* line 256
CreateClient ==
    /\ pc = "client"
    /\ \/ pc' = "fetch" /\ UNCHANGED outcome
       \/ Exit("Err: client")
    /\ UNCHANGED <<APPLICATION, app_ids, fetched, acc, apps, now, evals,
                   alerts, next_alert, sent, pages, page_i, rec_i>>

\* what one iteration of a fetch loop learnt from the directory
Traffic(id, error, application, owners) ==
    [id |-> id, error |-> error, application |-> application, owners |-> owners]

\* the loop iteration with every failure logged and skipped, as the bulk
\* fetch does for its parse failures
FetchOneSkipping ==
    /\ pc = "fetch"
    /\ Len(fetched) < Len(app_ids)
    /\ LET id == app_ids[Len(fetched) + 1]
           Skip(error, application) ==
               /\ fetched' = Append(fetched, Traffic(id, error, application, None))
               /\ UNCHANGED <<acc, pc, outcome>>
       IN  \/ Skip("application request", None)
           \/ \E body \in RunBodies(id) :
                LET application == ParseApp(body)
                IN  IF application = None
                    THEN Skip("application json", None)
                    ELSE \/ Skip("owners request", application)
                         \/ \E ownersBody \in RunOwnerBodies :
                              LET owners == ParseOwners(ownersBody)
                              IN  IF owners = None
                                  THEN Skip("owners json", application)
                                  ELSE /\ fetched' = Append(fetched,
                                              Traffic(id, "none", application,
                                                      Some(owners[1].value)))
                                       /\ acc' = Append(acc,
                                              insert_owners(application[1],
                                                            owners[1].value))
                                       /\ UNCHANGED <<pc, outcome>>
    /\ UNCHANGED <<APPLICATION, app_ids, apps, now, evals, alerts, next_alert,
                   sent, pages, page_i, rec_i>>

\* get_applications_with_owners, lines 18-40: one iteration of the loop.
\* Each of the four `?` returns the error and drops the local vector.
FetchOne ==
    /\ pc = "fetch"
    /\ Len(fetched) < Len(app_ids)
    /\ LET id == app_ids[Len(fetched) + 1]
           Fail(error, application) ==
               /\ fetched' = Append(fetched, Traffic(id, error, application, None))
               /\ acc' = <<>>
               /\ Exit("Err: fetch")
       IN  \/ Fail("application request", None)
           \/ \E body \in RunBodies(id) :
                LET application == ParseApp(body)
                IN  IF application = None
                    THEN Fail("application json", None)
                    ELSE \/ Fail("owners request", application)
                         \/ \E ownersBody \in RunOwnerBodies :
                              LET owners == ParseOwners(ownersBody)
                              IN  IF owners = None
                                  THEN Fail("owners json", application)
                                  ELSE /\ fetched' = Append(fetched,
                                              Traffic(id, "none", application,
                                                      Some(owners[1].value)))
                                       /\ acc' = Append(acc,
                                              insert_owners(application[1],
                                                            owners[1].value))
                                       /\ UNCHANGED <<pc, outcome>>
    /\ UNCHANGED <<APPLICATION, app_ids, apps, now, evals, alerts, next_alert,
                   sent, pages, page_i, rec_i>>

\* line 42 and the binding at line 259
FetchReturn ==
    /\ pc = "fetch"
    /\ Len(fetched) = Len(app_ids)
    /\ apps' = acc
    /\ acc' = <<>>
    /\ pc' = "evaluate"
    /\ UNCHANGED <<outcome, APPLICATION, app_ids, fetched, now, evals, alerts,
                   next_alert, sent, pages, page_i, rec_i>>

\* the call with the alerts vector kept from one call to the next
EvaluateAccumulating ==
    /\ pc = "evaluate"
    /\ \E clock \in NowSet :
         /\ now' = clock
         /\ alerts' = alerts \o check_expiring_credentials(apps, clock)
    /\ evals' = evals + 1
    /\ next_alert' = 1
    /\ pc' = "dispatch"
    /\ UNCHANGED <<outcome, APPLICATION, app_ids, fetched, acc, apps, sent,
                   pages, page_i, rec_i>>

\* line 263: the call of check_expiring_credentials; it borrows apps, reads
\* the clock and always returns Ok(alerts)
Evaluate ==
    /\ pc = "evaluate"
    /\ \E clock \in NowSet :
         /\ now' = clock
         /\ alerts' = check_expiring_credentials(apps, clock)
    /\ evals' = evals + 1
    /\ next_alert' = 1
    /\ pc' = "dispatch"
    /\ UNCHANGED <<outcome, APPLICATION, app_ids, fetched, acc, apps, sent,
                   pages, page_i, rec_i>>

\* the dispatch iteration with a failed send logged and passed over
SendOneIgnoringFailure ==
    /\ pc = "dispatch"
    /\ next_alert <= Len(alerts)
    /\ LET alert == alerts[next_alert]
       IN  /\ next_alert' = next_alert + 1
           /\ UNCHANGED <<pc, outcome>>
           /\ IF alert[2] # <<>> /\ alert[3] # <<>>
              THEN \/ sent' = Append(sent, MailFor(alert[1], alert[2], alert[3]))
                   \/ UNCHANGED sent
              ELSE UNCHANGED sent
    /\ UNCHANGED <<APPLICATION, app_ids, fetched, acc, apps, now, evals,
                   alerts, pages, page_i, rec_i>>

\* lines 268-279: one iteration of the dispatch loop
SendOne ==
    /\ pc = "dispatch"
    /\ next_alert <= Len(alerts)
    /\ LET alert == alerts[next_alert]
       IN  IF alert[2] # <<>> /\ alert[3] # <<>>
           THEN \/ /\ sent' = Append(sent, MailFor(alert[1], alert[2], alert[3]))
                   /\ next_alert' = next_alert + 1
                   /\ UNCHANGED <<pc, outcome>>
                \/ /\ Exit("Err: send")
                   /\ UNCHANGED <<sent, next_alert>>
           ELSE /\ next_alert' = next_alert + 1
                /\ UNCHANGED <<sent, pc, outcome>>
    /\ UNCHANGED <<APPLICATION, app_ids, fetched, acc, apps, now, evals,
                   alerts, pages, page_i, rec_i>>

\* line 280
Finish ==
    /\ pc = "dispatch"
    /\ next_alert > Len(alerts)
    /\ Exit("Ok")
    /\ UNCHANGED <<APPLICATION, app_ids, fetched, acc, apps, now, evals,
                   alerts, next_alert, sent, pages, page_i, rec_i>>

Init ==
    /\ pc = "main"
    /\ APPLICATION \in {None} \cup {Some(s) : s \in RunStrings}
    /\ outcome = "running" /\ app_ids = <<>> /\ fetched = <<>> /\ acc = <<>>
    /\ apps = <<>> /\ now = 10 /\ evals = 0 /\ alerts = <<>> /\ next_alert = 1
    /\ sent = <<>> /\ pages = <<>> /\ page_i = 1 /\ rec_i = 1

Next == ParseIds \/ CreateClient \/ FetchOne \/ FetchReturn \/ Evaluate
        \/ SendOne \/ Finish

Spec == Init /\ [][Next]_vars

----
\* The parsing of APPLICATION alone, over every string up to MaxEnvLen.

ParseInit ==
    /\ pc = "main"
    /\ APPLICATION \in {None} \cup {Some(s) : s \in EnvStrings}
    /\ outcome = "running" /\ app_ids = <<>> /\ fetched = <<>> /\ acc = <<>>
    /\ apps = <<>> /\ now = 10 /\ evals = 0 /\ alerts = <<>> /\ next_alert = 1
    /\ sent = <<>> /\ pages = <<>> /\ page_i = 1 /\ rec_i = 1

ParseNext == ParseIds

ParseSpec == ParseInit /\ [][ParseNext]_vars

----
\* check_expiring_credentials alone, called on every list of at most MaxApps
\* applications with at most MaxCreds credentials and MaxOwners owners, and called again on the list it was given.

\* calls of the evaluator on one list
MaxEvals == 2

EvalInit ==
    /\ pc = "evaluate"
    /\ APPLICATION = None
    /\ \E n \in 0..MaxApps :
         \E credentials \in Shares(CredSet, n, MaxCreds),
            owners \in Shares(OwnerSet, n, MaxOwners) :
              apps = Hydrated(credentials, owners)
    /\ outcome = "running" /\ app_ids = <<>> /\ fetched = <<>> /\ acc = <<>>
    /\ now = 10 /\ evals = 0 /\ alerts = <<>> /\ next_alert = 1
    /\ sent = <<>> /\ pages = <<>> /\ page_i = 1 /\ rec_i = 1

\* the caller hands the same list to the evaluator once more
CallAgain ==
    /\ pc = "dispatch"
    /\ evals < MaxEvals
    /\ pc' = "evaluate"
    /\ UNCHANGED <<outcome, APPLICATION, app_ids, fetched, acc, apps, now,
                   evals, alerts, next_alert, sent, pages, page_i, rec_i>>

EvalNext == Evaluate \/ CallAgain

EvalSpec == EvalInit /\ [][EvalNext]_vars

----
\* get_all_applications_with_filter, lines 45-105, alone.

\* raw records the filtered listing may hold: two well-formed applications
\* and two that do not deserialize
RawRecords ==
    { RawApp(IdAt(1), RawCredentials(<<CHOOSE c \in CredSet : c.endDateTime = 5>>)),
      RawApp(IdAt(2), <<>>),
      RawApp(IdAt(3), <<UndatedCredential>>),
      [ErrorBody EXCEPT !.id = Some(IdAt(4))] }

\* a page: page.json() is None, or an object whose "value" may be missing
Page(kind, records) ==
    IF kind = "no json" THEN [json |-> None]
    ELSE IF kind = "no value" THEN [json |-> Some([value |-> None])]
    ELSE [json |-> Some([value |-> Some(records)])]

PageKinds == {"value", "no json", "no value"}

\* what the directory may answer to list_owners for a listed application
\* (the filter asks for applications that have owners): an owner with a
\* user principal name, or no value array
BulkOwnerBodies ==
    {NoOwnersBody}
    \cup {OwnersBody(<<o>>) : o \in {x \in OwnerSet : x.userPrincipalName # None}}

BulkInit ==
    /\ pc = "list"
    /\ APPLICATION = None
    /\ \E n \in 0..MaxPages :
         \E records \in Shares(RawRecords, n, MaxRecs),
            kinds \in [1..n -> PageKinds] :
              /\ \A i \in 1..n : kinds[i] # "value" => records[i] = <<>>
              /\ pages = [i \in 1..n |-> Page(kinds[i], records[i])]
    /\ outcome = "running" /\ app_ids = <<>> /\ fetched = <<>> /\ acc = <<>>
    /\ apps = <<>> /\ now = 10 /\ evals = 0 /\ alerts = <<>> /\ next_alert = 1
    /\ sent = <<>> /\ page_i = 1 /\ rec_i = 1

\* lines 50-62: the paged list request
ListApplications ==
    /\ pc = "list"
    /\ \/ pc' = "pages" /\ UNCHANGED outcome
       \/ Exit("Err: fetch")
    /\ UNCHANGED <<APPLICATION, app_ids, fetched, acc, apps, now, evals,
                   alerts, next_alert, sent, pages, page_i, rec_i>>

\* the raw records of the current page, when it has a "value" array
HasValue(page) == page.json # None /\ page.json[1].value # None
PageRecords(page) == page.json[1].value[1]

\* the record iteration with an application whose owners do not parse kept,
\* without owners
BulkRecordKeepingUnowned ==
    /\ pc = "pages"
    /\ page_i <= Len(pages)
    /\ HasValue(pages[page_i])
    /\ rec_i <= Len(PageRecords(pages[page_i]))
    /\ LET raw == PageRecords(pages[page_i])[rec_i]
           app == ParseApp(raw)
       IN  IF app = None
           THEN /\ fetched' = Append(fetched,
                       Traffic(raw.id, "application json", app, None))
                /\ rec_i' = rec_i + 1
                /\ UNCHANGED <<acc, pc, outcome>>
           ELSE \/ /\ fetched' = Append(fetched,
                          Traffic(raw.id, "owners request", app, None))
                   /\ acc' = <<>>
                   /\ Exit("Err: fetch")
                   /\ UNCHANGED rec_i
                \/ \E ownersBody \in BulkOwnerBodies :
                     LET owners == ParseOwners(ownersBody)
                     IN  /\ rec_i' = rec_i + 1
                         /\ UNCHANGED <<pc, outcome>>
                         /\ IF owners = None
                            THEN /\ fetched' = Append(fetched,
                                        Traffic(raw.id, "owners json", app, None))
                                 /\ acc' = Append(acc, app[1])
                            ELSE /\ fetched' = Append(fetched,
                                        Traffic(raw.id, "none", app,
                                                Some(owners[1].value)))
                                 /\ acc' = Append(acc,
                                        insert_owners(app[1], owners[1].value))
    /\ UNCHANGED <<APPLICATION, app_ids, apps, now, evals, alerts, next_alert,
                   sent, pages, page_i>>

\* lines 67-98: one iteration of the record loop
BulkRecord ==
    /\ pc = "pages"
    /\ page_i <= Len(pages)
    /\ HasValue(pages[page_i])
    /\ rec_i <= Len(PageRecords(pages[page_i]))
    /\ LET raw == PageRecords(pages[page_i])[rec_i]
           app == ParseApp(raw)
           Skip(error) ==
               /\ fetched' = Append(fetched, Traffic(raw.id, error, app, None))
               /\ rec_i' = rec_i + 1
               /\ UNCHANGED <<acc, pc, outcome>>
       IN  IF app = None
           THEN Skip("application json")
           ELSE \/ /\ fetched' = Append(fetched,
                          Traffic(raw.id, "owners request", app, None))
                   /\ acc' = <<>>
                   /\ Exit("Err: fetch")
                   /\ UNCHANGED rec_i
                \/ \E ownersBody \in BulkOwnerBodies :
                     LET owners == ParseOwners(ownersBody)
                     IN  IF owners = None
                         THEN Skip("owners json")
                         ELSE /\ fetched' = Append(fetched,
                                     Traffic(raw.id, "none", app,
                                             Some(owners[1].value)))
                              /\ acc' = Append(acc,
                                     insert_owners(app[1], owners[1].value))
                              /\ rec_i' = rec_i + 1
                              /\ UNCHANGED <<pc, outcome>>
    /\ UNCHANGED <<APPLICATION, app_ids, apps, now, evals, alerts, next_alert,
                   sent, pages, page_i>>

\* lines 65-66: on to the next page, when this one gave no json or its
\* records are done
BulkNextPage ==
    /\ pc = "pages"
    /\ page_i <= Len(pages)
    /\ \/ pages[page_i].json = None
       \/ /\ HasValue(pages[page_i])
          /\ rec_i > Len(PageRecords(pages[page_i]))
    /\ page_i' = page_i + 1
    /\ rec_i' = 1
    /\ UNCHANGED <<pc, outcome, APPLICATION, app_ids, fetched, acc, apps, now,
                   evals, alerts, next_alert, sent, pages>>

\* line 67: as_array().unwrap() on a page without a "value" array
BulkPanic ==
    /\ pc = "pages"
    /\ page_i <= Len(pages)
    /\ pages[page_i].json # None
    /\ ~HasValue(pages[page_i])
    /\ acc' = <<>>
    /\ Exit("panic")
    /\ UNCHANGED <<APPLICATION, app_ids, fetched, apps, now, evals, alerts,
                   next_alert, sent, pages, page_i, rec_i>>

\* line 104
BulkReturn ==
    /\ pc = "pages"
    /\ page_i > Len(pages)
    /\ apps' = acc
    /\ acc' = <<>>
    /\ Exit("Ok")
    /\ UNCHANGED <<APPLICATION, app_ids, fetched, now, evals, alerts,
                   next_alert, sent, pages, page_i, rec_i>>

BulkNext == ListApplications \/ BulkRecord \/ BulkNextPage \/ BulkPanic
            \/ BulkReturn

BulkSpec == BulkInit /\ [][BulkNext]_vars

----
\* Claims about check_expiring_credentials (EvalSpec).  After a call, alerts
\* is what the call returned for apps with the clock value now.

Qualifies(credential) == credential.endDateTime < now + Window

Contactable(owner) == owner.mail # None \/ owner.userPrincipalName # None

Contact(owner) ==
    IF owner.mail # None THEN owner.mail[1] ELSE owner.userPrincipalName[1]

HasQualifying(app) ==
    \E i \in 1..Len(app.passwordCredentials) : Qualifies(app.passwordCredentials[i])

HasContactable(app) == \E j \in 1..Len(app.owners) : Contactable(app.owners[j])

Alertable(app) == HasQualifying(app) /\ HasContactable(app)

\* the applications that are to get an alert, in input order
Alerted == SelectSeq(apps, Alertable)

\* one description per qualifying credential, in credential order
QualifyingInfo(app) ==
    LET q == SelectSeq(app.passwordCredentials, Qualifies)
    IN  [i \in 1..Len(q) |-> CredentialInfo(q[i])]

\* one contact per contactable owner, in owner order
ContactsOnce(app) ==
    LET c == SelectSeq(app.owners, Contactable)
    IN  [j \in 1..Len(c) |-> Contact(c[j])]

\* C1: the alerts returned are, in order, those of the applications that have
\* both a credential with endDateTime < now + 30 days and an owner with mail
\* or userPrincipalName; no other application gets one, and every alert has a
\* non-empty contact list and a non-empty description list.
C1_AlertIffQualifyingAndContactable ==
    evals > 0 =>
        /\ Len(alerts) = Len(Alerted)
        /\ \A k \in 1..Len(alerts) :
             /\ k <= Len(Alerted)
             /\ alerts[k][1] = AlertName(Alerted[k])
             /\ alerts[k][2] # <<>>
             /\ alerts[k][3] # <<>>

\* an application with a qualifying credential and only uncontactable owners
\* got no alert while another application got one
C1_Witness ==
    /\ evals > 0
    /\ alerts # <<>>
    /\ \E i \in 1..Len(apps) :
         /\ HasQualifying(apps[i])
         /\ apps[i].owners # <<>>
         /\ ~HasContactable(apps[i])

\* C2: an alert's description list is exactly the descriptions of the
\* credentials with endDateTime < now + window, in credential order; one at
\* the threshold is left out, one that expired before now is in.
C2_DescriptionsAreTheQualifyingCredentials ==
    evals > 0 =>
        \A k \in 1..Len(alerts) :
            /\ k <= Len(Alerted)
            /\ alerts[k][3] = QualifyingInfo(Alerted[k])

\* an alerted application holds a credential that expired before now and one
\* that ends exactly at the threshold
C2_Witness ==
    /\ evals > 0
    /\ \E k \in 1..Len(alerts) :
         /\ k <= Len(Alerted)
         /\ Len(alerts[k][3]) = 1
         /\ \E i, j \in 1..Len(Alerted[k].passwordCredentials) :
              /\ Alerted[k].passwordCredentials[i].endDateTime < now
              /\ Alerted[k].passwordCredentials[j].endDateTime = now + Window

\* C3: an alert's contact list has exactly one entry per contactable owner,
\* in owner order, whatever the number of qualifying credentials.
C3_ContactsOncePerOwner ==
    evals > 0 =>
        \A k \in 1..Len(alerts) :
            /\ k <= Len(Alerted)
            /\ alerts[k][2] = ContactsOnce(Alerted[k])

\* C4: the alerts are the image of an order-preserving subsequence of the
\* applications: at most one alert per application, in input order.
C4_AlertsFollowApplicationOrder ==
    evals > 0 =>
        \E f \in [1..Len(alerts) -> 1..Len(apps)] :
            /\ \A j, k \in 1..Len(alerts) : j < k => f[j] < f[k]
            /\ \A k \in 1..Len(alerts) :
                 /\ alerts[k][1] = AlertName(apps[f[k]])
                 /\ alerts[k][3] = QualifyingInfo(apps[f[k]])

\* two applications got an alert each
C4_Witness ==
    /\ evals > 0
    /\ Len(alerts) >= 2
    /\ alerts[1][1] # alerts[2][1]

----
\* Claims about the run (Spec).

FetchFailed == \E k \in 1..Len(fetched) : fetched[k].error # "none"

FetchReturned ==
    \/ pc \in {"evaluate", "dispatch"}
    \/ pc = "exit" /\ outcome \in {"Ok", "Err: send"}

\* C5: when every application and owner fetch succeeds the fetch returns one
\* application per id, in id order, with the owners fetched for that id;
\* when one of the four steps fails for an id the run ends with the error,
\* nothing is returned, nothing is evaluated and no mail is sent.
C5_ExplicitFetchAllOrNothing ==
    /\ FetchReturned =>
         /\ ~FetchFailed
         /\ Len(apps) = Len(app_ids)
         /\ Len(fetched) = Len(app_ids)
         /\ \A i \in 1..Len(apps) :
              /\ fetched[i].id = app_ids[i]
              /\ apps[i].id = app_ids[i]
              /\ apps[i] = [fetched[i].application[1]
                               EXCEPT !.owners = fetched[i].owners[1]]
    /\ FetchFailed =>
         /\ pc = "exit" /\ outcome = "Err: fetch"
         /\ fetched[Len(fetched)].error # "none"
         /\ apps = <<>> /\ acc = <<>>
         /\ evals = 0 /\ alerts = <<>> /\ sent = <<>>

\* the second id's owners did not parse after the first id was fetched with
\* its owner
C5_Witness ==
    /\ Len(fetched) = 2
    /\ fetched[1].error = "none" /\ fetched[1].owners # Some(<<>>)
    /\ fetched[2].error = "owners json"

\* the same applications with every owner contact string changed
Readdressed(applications) ==
    [i \in 1..Len(applications) |->
        [applications[i] EXCEPT !.owners =
            [j \in 1..Len(applications[i].owners) |->
                [applications[i].owners[j] EXCEPT
                    !.mail = IF @ = None THEN None ELSE Some("other@corp.com"),
                    !.userPrincipalName =
                        IF @ = None THEN None ELSE Some("other@upn")]]]]

\* the mails of a run over the readdressed applications
ReaddressedMails ==
    LET other == check_expiring_credentials(Readdressed(apps), now)
    IN  [k \in 1..Len(other) |-> MailFor(other[k][1], other[k][2], other[k][3])]

C10_FetchEvaluateThenDispatchInOrder ==
    /\ pc \in {"main", "client", "fetch", "evaluate"} => sent = <<>>
    /\ sent # <<>> =>
         /\ evals = 1
         /\ Len(fetched) = Len(app_ids) /\ Len(apps) = Len(app_ids)
    /\ evals > 0 =>
         /\ Len(sent) = next_alert - 1
         /\ Len(sent) <= Len(alerts)
         /\ \A k \in 1..Len(sent) :
              sent[k] = MailFor(alerts[k][1], alerts[k][2], alerts[k][3])
    /\ outcome = "Ok" => pc = "exit" /\ Len(sent) = Len(alerts)
    /\ outcome = "Err: send" =>
         pc = "exit" /\ Len(sent) < Len(alerts)

\* the second of two sends failed
C10_Witness ==
    /\ outcome = "Err: send"
    /\ Len(sent) = 1
    /\ Len(alerts) = 2

----
\* Claim about the parsing of APPLICATION (ParseSpec).

\* position of the j-th comma of s
CommaAt(s, j) ==
    CHOOSE i \in 1..Len(s) :
        s[i] = "," /\ Cardinality({m \in 1..i : s[m] = ","}) = j

\* the text between the (j-1)-th and the j-th comma, without the blanks
\* around it
PieceOf(s, j) ==
    LET commas == Cardinality({m \in 1..Len(s) : s[m] = ","})
        from  == IF j = 1 THEN 1 ELSE CommaAt(s, j - 1) + 1
        to    == IF j = commas + 1 THEN Len(s) ELSE CommaAt(s, j) - 1
        inked == {m \in from..to : s[m] # " "}
    IN  IF inked = {} THEN <<>>
        ELSE SubSeq(s, CHOOSE m \in inked : \A n \in inked : m <= n,
                       CHOOSE m \in inked : \A n \in inked : m >= n)

\* C6: the ids are the comma-separated entries, each trimmed, and the empty
\* string gives no id at all.
C6_IdsAreTrimmedEntriesEmptyGivesNone ==
    pc = "client" =>
        LET s == APPLICATION[1]
            commas == Cardinality({m \in 1..Len(s) : s[m] = ","})
        IN  IF s = <<>> THEN app_ids = <<>>
            ELSE app_ids = [j \in 1..(commas + 1) |-> PieceOf(s, j)]

----
\* Claim about the bulk fetch (BulkSpec).

\* the raw records of the pages, in page and record order
RECURSIVE Listed(_)
Listed(ps) ==
    IF ps = <<>> THEN <<>>
    ELSE (IF HasValue(Head(ps)) THEN PageRecords(Head(ps)) ELSE <<>>)
         \o Listed(Tail(ps))

WellFormed(raw) ==
    /\ raw.id # None
    /\ raw.passwordCredentials # None
    /\ \A i \in 1..Len(raw.passwordCredentials[1]) :
         raw.passwordCredentials[1][i].endDateTime # None

\* the applications of the records handled so far whose record and owners
\* both parsed, with those owners
RECURSIVE Kept(_, _)
Kept(records, traffic) ==
    IF traffic = <<>> THEN <<>>
    ELSE (IF WellFormed(Head(records)) /\ Head(traffic).owners # None
          THEN <<[id |-> Head(records).id[1],
                  appId |-> Head(records).appId,
                  displayName |-> Head(records).displayName,
                  passwordCredentials |->
                      [i \in 1..Len(Head(records).passwordCredentials[1]) |->
                          [Head(records).passwordCredentials[1][i]
                              EXCEPT !.endDateTime = @[1]]],
                  owners |-> Head(traffic).owners[1]]>>
          ELSE <<>>)
         \o Kept(Tail(records), Tail(traffic))

\* C7: a record that does not parse, or whose owners do not parse, is left
\* out alone and the loop goes on; what the fetch returns is exactly the
\* records for which both parsed, in page and record order.
C7_BulkFetchSkipsMalformedOnly ==
    /\ Len(fetched) <= Len(Listed(pages))
    /\ \A k \in 1..Len(fetched) :
         /\ fetched[k].id = Listed(pages)[k].id
         /\ fetched[k].error \in {"application json", "owners json"} =>
              (k = Len(fetched) => outcome # "Err: fetch")
    /\ pc = "pages" => acc = Kept(Listed(pages), fetched)
    /\ outcome = "Ok" =>
         /\ Len(fetched) = Len(Listed(pages))
         /\ apps = Kept(Listed(pages), fetched)

\* the fetch returned an application although one record and the owners of
\* another did not parse
C7_Witness ==
    /\ outcome = "Ok"
    /\ apps # <<>>
    /\ \E k \in 1..Len(fetched) : fetched[k].error = "application json"
    /\ \E k \in 1..Len(fetched) : fetched[k].error = "owners json"
    /\ Len(pages) > 1

====
